---- MODULE Spec2Model ----
(***************************************************************************)
(* ddns-rust: the request handler update_dns (src/api.rs) and the          *)
(* Cloudflare reconciliation engine update_record                          *)
(* (src/provider/cloudflare.rs), with the provider's zone as a record      *)
(* store that answers the engine's three remote calls.                     *)
(*                                                                         *)
(* Strings.  A program string is a TLA+ string.  The one string the        *)
(* program parses, the {ip} path segment, is a sequence of one-character   *)
(* strings, and Str(ip) is its string.  A text built by format! is the     *)
(* sequence of its pieces (literal fragments and argument values, in       *)
(* order); the text is their concatenation.  Option<T> is a sequence of    *)
(* length 0 (None) or 1 (Some).                                            *)
(*                                                                         *)
(* Tasks.  Each inbound request runs on its own task.  A task is suspended *)
(* exactly while one of its remote calls is in flight, so one action is    *)
(* the code between two suspension points: it consumes the reply of the    *)
(* call in flight and runs up to the next call being sent, or to the       *)
(* response of the handler.                                                *)
(***************************************************************************)
EXTENDS Integers, Sequences, FiniteSets, TLC

VARIABLES
    remote,    \* the provider's zone: the sequence of its DNS records
    pc,        \* per task: "idle", the remote call in flight, or "done"
    req,       \* per task: the request (provider, host, ip, key)
    config,    \* per task: Option<ProviderConfig> found by get_provider
    existing,  \* per task: Option<DnsRecord> returned by get_record
    sent,      \* per task: the remote requests issued so far, in order
    replies,   \* per task: the replies received so far, in order
    result,    \* per task: Option<Result<DnsUpdateResult>> of update_record
    response,  \* per task: Option<(StatusCode, Json body)> of update_dns
    before     \* per task: the tasks that had responded when it started

vars == <<remote, pc, req, config, existing, sent, replies, result, response,
          before>>

---------------------------------------------------------------------------
(* Bounds of the model *)

MaxTasks == 2      \* concurrent requests
MaxRecords == 2    \* records in the zone before the first request
MaxErrors == 2     \* entries in the error list of a provider reply

Tasks == 1..MaxTasks

None == <<>>
Some(x) == <<x>>

---------------------------------------------------------------------------
(* Strings and formatting *)

Digit == <<"0", "1", "2", "3", "4", "5", "6", "7", "8", "9">>

IsDigit(c) == \E i \in 1..Len(Digit) : Digit[i] = c

DigitValue(c) == (CHOOSE i \in 1..Len(Digit) : Digit[i] = c) - 1

RECURSIVE Str(_)
Str(chars) == IF chars = <<>> THEN "" ELSE Head(chars) \o Str(Tail(chars))

RECURSIVE NatToString(_)
NatToString(n) ==
    IF n < 10 THEN Digit[n + 1]
    ELSE NatToString(n \div 10) \o Digit[(n % 10) + 1]

\* Display of an i32
i32_to_string(n) == IF n < 0 THEN "-" \o NatToString(-n) ELSE NatToString(n)

\* The text `sub` occurs in the text `text`, piece for piece
Contains(text, sub) ==
    \E i \in 0..(Len(text) - Len(sub)) : SubSeq(text, i + 1, i + Len(sub)) = sub

---------------------------------------------------------------------------
(* Configuration: loaded once at start, immutable afterwards *)

ProviderConfig(name, type, key, api_key, zone_id) ==
    [name |-> name, provider_type |-> type, key |-> key,
     api_key |-> api_key, zone_id |-> zone_id]

\* config.providers, in file order.  The second "cf" entry is shadowed by
\* the first; "blank" carries an empty key; "r53" names no engine.
Providers ==
    << ProviderConfig("cf", "cloudflare", Some("s3cret"), "tok-cf", "Z"),
       ProviderConfig("open", "cloudflare", None, "tok-open", "Z"),
       ProviderConfig("blank", "cloudflare", Some(""), "tok-blank", "Z"),
       ProviderConfig("r53", "route53", Some("s3cret"), "tok-r53", "Z"),
       ProviderConfig("cf", "route53", None, "tok-cf2", "Z") >>

\* Variant: the last provider of that name instead of the first
get_provider_last(providers, name) ==
    LET hits == SelectSeq(providers, LAMBDA p : p.name = name)
    IN  IF hits = <<>> THEN None ELSE Some(hits[Len(hits)])

\* self.providers.iter().find(|p| p.name == name)
get_provider(providers, name) ==
    LET hits == SelectSeq(providers, LAMBDA p : p.name = name)
    IN  IF hits = <<>> THEN None ELSE Some(Head(hits))

---------------------------------------------------------------------------
(* Request validation *)

\* The groups of `chars` between its dots
RECURSIVE SplitDots(_)
SplitDots(chars) ==
    IF \A i \in 1..Len(chars) : chars[i] # "."
    THEN <<chars>>
    ELSE LET k == CHOOSE i \in 1..Len(chars) :
                      chars[i] = "." /\ \A j \in 1..(i - 1) : chars[j] # "."
         IN  <<SubSeq(chars, 1, k - 1)>> \o SplitDots(SubSeq(chars, k + 1, Len(chars)))

RECURSIVE DecimalValue(_)
DecimalValue(g) ==
    IF g = <<>> THEN 0
    ELSE 10 * DecimalValue(SubSeq(g, 1, Len(g) - 1)) + DigitValue(g[Len(g)])

\* One octet: one to three decimal digits, no leading zero, at most 255
IsOctet(g) ==
    /\ Len(g) \in 1..3
    /\ \A i \in 1..Len(g) : IsDigit(g[i])
    /\ (Len(g) > 1 => g[1] # "0")
    /\ DecimalValue(g) <= 255

\* ip.parse::<std::net::Ipv4Addr>().is_ok()
is_valid_ipv4(ip) ==
    /\ Len(ip) <= 15
    /\ Len(SplitDots(ip)) = 4
    /\ \A i \in 1..4 : IsOctet(SplitDots(ip)[i])

\* query.key.as_deref().unwrap_or("")
request_key(query_key) == IF query_key = None THEN "" ELSE query_key[1]

\* Variant: the key is never compared
key_accepted_any(provider_config, query_key) == TRUE

\* The access key check passes: no key configured, or request_key == config_key
key_accepted(provider_config, query_key) ==
    \/ provider_config.key = None
    \/ request_key(query_key) = provider_config.key[1]

\* Variant: every provider_type is handed to the Cloudflare engine
dispatches_any(provider_type) == TRUE

\* The match on provider_config.provider_type selects an engine
dispatches(provider_type) == provider_type = "cloudflare"

ErrorResponse(status, error) ==
    [status |-> status, body |-> [success |-> FALSE, error |-> error]]

ApiResponse(r) ==
    [status |-> 200,
     body |-> [success |-> r.success, message |-> r.message, record_id |-> r.record_id]]

\* Variant: the provider type is matched before the key is compared
rejection_type_first(r) ==
    IF ~is_valid_ipv4(r.ip)
    THEN Some(ErrorResponse(400, <<"Invalid IP address: ", Str(r.ip)>>))
    ELSE LET found == get_provider(Providers, r.provider) IN
         IF found = None
         THEN Some(ErrorResponse(404, <<"Provider not found: ", r.provider>>))
         ELSE IF ~dispatches(found[1].provider_type)
         THEN Some(ErrorResponse(400, <<"Unsupported provider type: ",
                                        found[1].provider_type>>))
         ELSE IF ~key_accepted(found[1], r.key)
         THEN Some(ErrorResponse(401, <<"Invalid key">>))
         ELSE None

\* The checks of update_dns before the engine: the rejection, or None
rejection(r) ==
    IF ~is_valid_ipv4(r.ip)
    THEN Some(ErrorResponse(400, <<"Invalid IP address: ", Str(r.ip)>>))
    ELSE LET found == get_provider(Providers, r.provider) IN
         IF found = None
         THEN Some(ErrorResponse(404, <<"Provider not found: ", r.provider>>))
         ELSE IF ~key_accepted(found[1], r.key)
         THEN Some(ErrorResponse(401, <<"Invalid key">>))
         ELSE IF ~dispatches(found[1].provider_type)
         THEN Some(ErrorResponse(400, <<"Unsupported provider type: ",
                                        found[1].provider_type>>))
         ELSE None

---------------------------------------------------------------------------
(* The Cloudflare engine: requests *)

CLOUDFLARE_API_BASE == "https://api.cloudflare.com/client/v4"

Ok(v) == [ok |-> TRUE, value |-> v]
Err(text) == [ok |-> FALSE, error |-> text]

\* format!("Bearer {}", config.api_key)
Authorization(provider_config) == <<"Bearer ", provider_config.api_key>>

\* The GET of get_record
list_request(provider_config, host) ==
    [method |-> "GET",
     url |-> <<CLOUDFLARE_API_BASE, "/zones/", provider_config.zone_id,
               "/dns_records?type=A&name=", host>>,
     authorization |-> Authorization(provider_config),
     body |-> None]

CreateRecordRequest(host, ip) ==
    [type |-> "A", name |-> host, content |-> ip, ttl |-> 1, proxied |-> FALSE]

\* Variant: the updated record is put behind the provider's proxy
UpdateRecordRequest_proxied(host, ip) ==
    [type |-> "A", name |-> host, content |-> ip, ttl |-> 1, proxied |-> TRUE]

UpdateRecordRequest(host, ip) ==
    [type |-> "A", name |-> host, content |-> ip, ttl |-> 1, proxied |-> FALSE]

\* The POST of create_record
create_request(provider_config, host, ip) ==
    [method |-> "POST",
     url |-> <<CLOUDFLARE_API_BASE, "/zones/", provider_config.zone_id, "/dns_records">>,
     authorization |-> Authorization(provider_config),
     body |-> Some(CreateRecordRequest(host, ip))]

\* The PUT of update_existing_record
update_request(provider_config, record_id, host, ip) ==
    [method |-> "PUT",
     url |-> <<CLOUDFLARE_API_BASE, "/zones/", provider_config.zone_id,
               "/dns_records/", record_id>>,
     authorization |-> Authorization(provider_config),
     body |-> Some(UpdateRecordRequest(host, ip))]

---------------------------------------------------------------------------
(* The Cloudflare engine: replies *)

\* format!("{}: {}", e.code, e.message)
error_pair(e) == <<i32_to_string(e.code), ": ", e.message>>

\* Variant: only the first error is reported
join_errors_first(errors) == IF errors = <<>> THEN <<>> ELSE error_pair(errors[1])

\* Variant: the pairs are joined with "; "
RECURSIVE join_errors_semicolon(_)
join_errors_semicolon(errors) ==
    IF errors = <<>> THEN <<>>
    ELSE IF Len(errors) = 1 THEN error_pair(errors[1])
    ELSE error_pair(errors[1]) \o <<"; ">> \o join_errors_semicolon(Tail(errors))

\* errors.join(", ")
RECURSIVE join_errors(_)
join_errors(errors) ==
    IF errors = <<>> THEN <<>>
    ELSE IF Len(errors) = 1 THEN error_pair(errors[1])
    ELSE error_pair(errors[1]) \o <<", ">> \o join_errors(Tail(errors))

\* anyhow::bail!("Cloudflare API error: {}", errors.join(", "))
api_error(errors) == <<"Cloudflare API error: ">> \o join_errors(errors)

\* Variant: the last record of the list is taken
first_record_last(records) ==
    IF records = <<>> THEN None ELSE Some(records[Len(records)])

\* response.result.into_iter().next()
first_record(records) == IF records = <<>> THEN None ELSE Some(Head(records))

\* Variant: the success flag of the list response is not looked at
get_record_result_unchecked(reply) ==
    IF reply.transport = "send" THEN Err(<<"Failed to send request to Cloudflare">>)
    ELSE IF reply.transport = "parse" THEN Err(<<"Failed to parse Cloudflare response">>)
    ELSE Ok(first_record(reply.body.result))

\* get_record, from the reply to its GET: Result<Option<DnsRecord>>
get_record_result(reply) ==
    IF reply.transport = "send" THEN Err(<<"Failed to send request to Cloudflare">>)
    ELSE IF reply.transport = "parse" THEN Err(<<"Failed to parse Cloudflare response">>)
    ELSE IF ~reply.body.success THEN Err(api_error(reply.body.errors))
    ELSE Ok(first_record(reply.body.result))

\* create_record, from the reply to its POST: Result<DnsRecord>
create_record_result(reply) ==
    IF reply.transport = "send"
    THEN Err(<<"Failed to send create request to Cloudflare">>)
    ELSE IF reply.transport = "parse"
    THEN Err(<<"Failed to parse Cloudflare create response">>)
    ELSE IF ~reply.body.success THEN Err(api_error(reply.body.errors))
    ELSE IF reply.body.result = None THEN Err(<<"No result in Cloudflare response">>)
    ELSE Ok(reply.body.result[1])

\* update_existing_record, from the reply to its PUT: Result<DnsRecord>
update_existing_record_result(reply) ==
    IF reply.transport = "send"
    THEN Err(<<"Failed to send update request to Cloudflare">>)
    ELSE IF reply.transport = "parse"
    THEN Err(<<"Failed to parse Cloudflare update response">>)
    ELSE IF ~reply.body.success THEN Err(api_error(reply.body.errors))
    ELSE IF reply.body.result = None THEN Err(<<"No result in Cloudflare response">>)
    ELSE Ok(reply.body.result[1])

---------------------------------------------------------------------------
(* The Cloudflare engine: update_record *)

DnsUpdateResult(message, record_id) ==
    [success |-> TRUE, message |-> message, record_id |-> record_id]

\* What update_record does next: it returns `r`, or it issues the request
\* `q` and suspends in `call`
Done(r) == [next |-> "done", result |-> r]
Issue(call, q) == [next |-> call, request |-> q]

\* Variant: the found record is updated without comparing its content
after_lookup_no_compare(found, provider_config, host, ip) ==
    IF found # None
    THEN Issue("update_existing_record",
               update_request(provider_config, found[1].id, host, ip))
    ELSE Issue("create_record", create_request(provider_config, host, ip))

\* Variant: a found record with other content is not updated; one is created
after_lookup_always_create(found, provider_config, host, ip) ==
    IF found # None /\ found[1].content = ip
    THEN Done(Ok(DnsUpdateResult(<<"Record already up to date with IP ", ip>>,
                                 Some(found[1].id))))
    ELSE Issue("create_record", create_request(provider_config, host, ip))

\* update_record after get_record returned Ok(found): lines 15-26, 33-35
after_lookup(found, provider_config, host, ip) ==
    IF found # None
    THEN IF found[1].content = ip
         THEN Done(Ok(DnsUpdateResult(<<"Record already up to date with IP ", ip>>,
                                      Some(found[1].id))))
         ELSE Issue("update_existing_record",
                    update_request(provider_config, found[1].id, host, ip))
    ELSE Issue("create_record", create_request(provider_config, host, ip))

\* Variant: the identifier returned is the one the lookup found
after_update_existing_id(written, existing_record, provider_config, host, ip) ==
    IF written.ok
    THEN Done(Ok(DnsUpdateResult(<<"Updated record ", host, " to IP ", ip>>,
                                 Some(existing_record.id))))
    ELSE Done(written)

\* Variant: a failed update falls back to a create
after_update_fallback(written, existing_record, provider_config, host, ip) ==
    IF written.ok
    THEN Done(Ok(DnsUpdateResult(<<"Updated record ", host, " to IP ", ip>>,
                                 Some(written.value.id))))
    ELSE Issue("create_record", create_request(provider_config, host, ip))

\* update_record after update_existing_record returned `written`: lines 26-32
after_update(written, existing_record, provider_config, host, ip) ==
    IF written.ok
    THEN Done(Ok(DnsUpdateResult(<<"Updated record ", host, " to IP ", ip>>,
                                 Some(written.value.id))))
    ELSE Done(written)

\* Variant: the created record's identifier is not returned
after_create_no_id(written, provider_config, host, ip) ==
    IF written.ok
    THEN Done(Ok(DnsUpdateResult(<<"Created new record ", host, " with IP ", ip>>, None)))
    ELSE Done(written)

\* update_record after create_record returned `written`: lines 35-41
after_create(written, provider_config, host, ip) ==
    IF written.ok
    THEN Done(Ok(DnsUpdateResult(<<"Created new record ", host, " with IP ", ip>>,
                                 Some(written.value.id))))
    ELSE Done(written)

\* The match of update_dns on the engine's result
respond(r) ==
    IF r.ok THEN ApiResponse(r.value)
    ELSE ErrorResponse(500, <<"DNS update failed: ">> \o r.error)

---------------------------------------------------------------------------
(* The provider's zone, as the engine's three calls see it *)

DnsRecord(id, name, content) ==
    [id |-> id, type |-> "A", name |-> name, content |-> content]

RecordId(i) == "r" \o NatToString(i)

\* GET ?type=A&name=host: the A records of that name, in zone order
ZoneList(zone, request) ==
    SelectSeq(zone, LAMBDA rec : rec.type = "A" /\ rec.name = request.url[Len(request.url)])

\* The record a POST adds; identifiers are never reused
ZoneNewRecord(zone, request) ==
    DnsRecord(RecordId(Len(zone) + 1), request.body[1].name, request.body[1].content)

ZoneCreate(zone, request) == Append(zone, ZoneNewRecord(zone, request))

\* The record a PUT /dns_records/{id} leaves under that identifier
ZoneUpdatedRecord(request) ==
    DnsRecord(request.url[Len(request.url)], request.body[1].name, request.body[1].content)

ZoneUpdate(zone, request) ==
    [i \in 1..Len(zone) |->
        IF zone[i].id = request.url[Len(request.url)]
        THEN ZoneUpdatedRecord(request) ELSE zone[i]]

\* A reply: whether the zone performed the request, how the exchange ended
\* ("ok", or the "send" or "parse" step of the client failing), and the
\* response envelope.  `kind` tells the replies of a zone that works
\* ("faithful") from transport or provider failures ("fault") and from
\* envelopes a working zone would not send ("quirk"); the engine cannot
\* see it.
Reply(kind, applied, transport, body) ==
    [kind |-> kind, applied |-> applied, transport |-> transport, body |-> body]

ListEnvelope(success, errors, records) ==
    [success |-> success, errors |-> errors, result |-> records]

Envelope(success, errors, record) ==
    [success |-> success, errors |-> errors, result |-> record]

ErrorEntries ==
    { [code |-> 9109, message |-> "Invalid access token"],
      [code |-> -7, message |-> "quota"] }

ErrorLists ==
    UNION { [1..n -> ErrorEntries] : n \in 0..MaxErrors }

\* The error lists of the concurrent specification
ConcErrorLists == { <<[code |-> 9109, message |-> "Invalid access token"]>> }

\* The client steps that may fail in the concurrent specification
ConcTransports == {"send"}

Transports == {"send", "parse"}

\* What the environment may do wrong: the client steps that fail, the
\* error lists the provider reports, and whether it sends quirks
Faults(transports, errorLists, quirks) ==
    [transports |-> transports, errorLists |-> errorLists, quirks |-> quirks]

Quirks(faults, quirks) == IF faults.quirks THEN quirks ELSE {}

TransportFaults(faults, applied) ==
    { Reply("fault", a, tr, None) : a \in applied, tr \in faults.transports }

ListReplies(zone, request, faults) ==
    {Reply("faithful", FALSE, "ok", ListEnvelope(TRUE, <<>>, ZoneList(zone, request)))}
    \cup TransportFaults(faults, {FALSE})
    \cup { Reply("fault", FALSE, "ok", ListEnvelope(FALSE, errs, <<>>)) :
             errs \in faults.errorLists }

CreateReplies(zone, request, faults) ==
    {Reply("faithful", TRUE, "ok",
           Envelope(TRUE, <<>>, Some(ZoneNewRecord(zone, request))))}
    \cup Quirks(faults, {Reply("quirk", TRUE, "ok", Envelope(TRUE, <<>>, None))})
    \cup TransportFaults(faults, BOOLEAN)
    \cup { Reply("fault", FALSE, "ok", Envelope(FALSE, errs, None)) :
             errs \in faults.errorLists }

UpdateReplies(zone, request, faults) ==
    {Reply("faithful", TRUE, "ok", Envelope(TRUE, <<>>, Some(ZoneUpdatedRecord(request))))}
    \cup Quirks(faults,
        {Reply("quirk", TRUE, "ok", Envelope(TRUE, <<>>, None)),
         Reply("quirk", TRUE, "ok",
               Envelope(TRUE, <<>>, Some([ZoneUpdatedRecord(request) EXCEPT !.id = "moved"])))})
    \cup TransportFaults(faults, BOOLEAN)
    \cup { Reply("fault", FALSE, "ok", Envelope(FALSE, errs, None)) :
             errs \in faults.errorLists }

---------------------------------------------------------------------------
(* Inputs *)

Hosts == {"home.example.com", "nas.example.com"}

ProviderNames == {"cf", "open", "blank", "r53", "nope"}

KeyInputs == {None, Some(""), Some("s3cret"), Some("S3CRET")}

ValidIps ==
    { <<"1", ".", "1", ".", "1", ".", "1">>,
      <<"2", ".", "2", ".", "2", ".", "2">> }

InvalidIps ==
    { <<"2", "5", "6", ".", "1", ".", "1", ".", "1">>,
      <<"1", ".", "1", ".", "1">>,
      <<"0", "1", ".", "1", ".", "1", ".", "1">>,
      <<"1", ".", "1", ".", "1", ".", "x">>,
      <<"1", ".", "1", ".", "1", ".", "1", ".">>,
      <<"1", ".", ".", "1", ".", "1">> }

\* A valid address no record of the initial zones holds
BoundaryIps == { <<"1", "0", ".", "0", ".", "0", ".", "2", "5", "5">> }

IpInputs == ValidIps \cup BoundaryIps \cup InvalidIps

Requests ==
    [provider : ProviderNames, host : Hosts, ip : IpInputs, key : KeyInputs]

\* The requests of the concurrent specification: all reach the engine
ConcRequests ==
    [provider : {"open"}, host : Hosts, ip : ValidIps, key : {None}]

Contents == { Str(ip) : ip \in ValidIps }

\* The zones a first request may find: up to MaxRecords A records of the
\* hosts, several of one name allowed
InitialZones ==
    UNION { { [i \in 1..n |-> DnsRecord(RecordId(i), f[i][1], f[i][2])] :
                f \in [1..n -> Hosts \X Contents] } : n \in 0..MaxRecords }

---------------------------------------------------------------------------
(* State machine *)

Host(t) == req[t][1].host
Ip(t) == Str(req[t][1].ip)

Init ==
    /\ remote \in InitialZones
    /\ pc = [t \in Tasks |-> "idle"]
    /\ req = [t \in Tasks |-> None]
    /\ config = [t \in Tasks |-> None]
    /\ existing = [t \in Tasks |-> None]
    /\ sent = [t \in Tasks |-> <<>>]
    /\ replies = [t \in Tasks |-> <<>>]
    /\ result = [t \in Tasks |-> None]
    /\ response = [t \in Tasks |-> None]
    /\ before = [t \in Tasks |-> {}]

\* update_record returns `r` to update_dns, which responds
Return(t, r) ==
    /\ pc' = [pc EXCEPT ![t] = "done"]
    /\ result' = [result EXCEPT ![t] = Some(r)]
    /\ response' = [response EXCEPT ![t] = Some(respond(r))]

\* update_record issues request `q` and suspends in `call`
Call(t, call, q) ==
    /\ pc' = [pc EXCEPT ![t] = call]
    /\ sent' = [sent EXCEPT ![t] = Append(@, q)]
    /\ UNCHANGED <<result, response>>

\* Variant: requests for one hostname are served one at a time
update_dns_serialized(t, r) ==
    /\ pc[t] = "idle"
    /\ \A u \in Tasks \ {t} :
           pc[u] \notin {"idle", "done"} => req[u][1].host # r.host
    /\ req' = [req EXCEPT ![t] = Some(r)]
    /\ before' = [before EXCEPT ![t] = {u \in Tasks : pc[u] = "done"}]
    /\ IF rejection(r) # None
       THEN /\ pc' = [pc EXCEPT ![t] = "done"]
            /\ response' = [response EXCEPT ![t] = rejection(r)]
            /\ UNCHANGED <<config, sent>>
       ELSE /\ config' = [config EXCEPT ![t] = get_provider(Providers, r.provider)]
            /\ pc' = [pc EXCEPT ![t] = "get_record"]
            /\ sent' = [sent EXCEPT ![t] = <<list_request(config'[t][1], r.host)>>]
            /\ UNCHANGED response
    /\ UNCHANGED <<remote, existing, replies, result>>

\* update_dns, from the request to its rejection or to the GET of
\* update_record -> get_record being in flight
update_dns(t, r) ==
    /\ pc[t] = "idle"
    /\ req' = [req EXCEPT ![t] = Some(r)]
    /\ before' = [before EXCEPT ![t] = {u \in Tasks : pc[u] = "done"}]
    /\ IF rejection(r) # None
       THEN /\ pc' = [pc EXCEPT ![t] = "done"]
            /\ response' = [response EXCEPT ![t] = rejection(r)]
            /\ UNCHANGED <<config, sent>>
       ELSE /\ config' = [config EXCEPT ![t] = get_provider(Providers, r.provider)]
            /\ pc' = [pc EXCEPT ![t] = "get_record"]
            /\ sent' = [sent EXCEPT ![t] = <<list_request(config'[t][1], r.host)>>]
            /\ UNCHANGED response
    /\ UNCHANGED <<remote, existing, replies, result>>

\* update_record goes on as `step` says
Proceed(t, step) ==
    IF step.next = "done"
    THEN Return(t, step.result) /\ UNCHANGED sent
    ELSE Call(t, step.next, step.request)

\* The reply to the GET arrives: get_record returns, update_record
\* compares and returns or issues its write
get_record(t, reply) ==
    /\ pc[t] = "get_record"
    /\ replies' = [replies EXCEPT ![t] = Append(@, reply)]
    /\ LET found == get_record_result(reply) IN
       IF ~found.ok
       THEN Proceed(t, Done(found)) /\ UNCHANGED existing
       ELSE /\ existing' = [existing EXCEPT ![t] = found.value]
            /\ Proceed(t, after_lookup(found.value, config[t][1], Host(t), Ip(t)))
    /\ UNCHANGED <<remote, req, config, before>>

\* The reply to the POST arrives: create_record returns, update_record
\* returns
create_record(t, reply) ==
    /\ pc[t] = "create_record"
    /\ replies' = [replies EXCEPT ![t] = Append(@, reply)]
    /\ remote' = IF reply.applied THEN ZoneCreate(remote, sent[t][Len(sent[t])])
                 ELSE remote
    /\ Proceed(t, after_create(create_record_result(reply), config[t][1], Host(t), Ip(t)))
    /\ UNCHANGED <<req, config, existing, before>>

\* The reply to the PUT arrives: update_existing_record returns,
\* update_record returns
update_existing_record(t, reply) ==
    /\ pc[t] = "update_existing_record"
    /\ replies' = [replies EXCEPT ![t] = Append(@, reply)]
    /\ remote' = IF reply.applied THEN ZoneUpdate(remote, sent[t][Len(sent[t])])
                 ELSE remote
    /\ Proceed(t, after_update(update_existing_record_result(reply), existing[t][1],
                               config[t][1], Host(t), Ip(t)))
    /\ UNCHANGED <<req, config, existing, before>>

\* The request in flight of a suspended task
InFlight(t) == sent[t][Len(sent[t])]

\* The zone answers the call of task t in flight, its failures drawn from
\* `faults`, and the task runs to its next suspension point or to its end
Answer(t, faults) ==
    \/ /\ pc[t] = "get_record"
       /\ \E reply \in ListReplies(remote, InFlight(t), faults) :
              get_record(t, reply)
    \/ /\ pc[t] = "create_record"
       /\ \E reply \in CreateReplies(remote, InFlight(t), faults) :
              create_record(t, reply)
    \/ /\ pc[t] = "update_existing_record"
       /\ \E reply \in UpdateReplies(remote, InFlight(t), faults) :
              update_existing_record(t, reply)

\* One step of task t: a request out of `requests` arrives, or the zone
\* answers the call in flight
Step(t, requests, faults) ==
    \/ \E r \in requests : update_dns(t, r)
    \/ Answer(t, faults)

\* One request, any request, every reply
Next == Step(1, Requests, Faults(Transports, ErrorLists, TRUE))

Spec == Init /\ [][Next]_vars

\* Concurrent requests, one per task, all reaching the engine, on a zone
\* that holds at most one record when the first of them arrives
InitConc == Init /\ Len(remote) <= 1

ConcFaults == Faults(ConcTransports, ConcErrorLists, FALSE)

NextConc == \E t \in Tasks : Step(t, ConcRequests, ConcFaults)

SpecConc == InitConc /\ [][NextConc]_vars

\* The same, every remote call being answered in the end and the runtime
\* polling every task whose reply has arrived
SpecConcFair ==
    SpecConc /\ \A t \in Tasks : WF_vars(Answer(t, ConcFaults))

---------------------------------------------------------------------------
(* Vocabulary of the properties *)

Creates(t) == SelectSeq(sent[t], LAMBDA q : q.method = "POST")
Updates(t) == SelectSeq(sent[t], LAMBDA q : q.method = "PUT")
Writes(t) == SelectSeq(sent[t], LAMBDA q : q.method \in {"POST", "PUT"})

\* The reply carries an envelope with success:true
Succeeded(reply) == reply.transport = "ok" /\ reply.body.success

\* The lookup of task t has been answered with success:true
LookedUp(t) == replies[t] # <<>> /\ Succeeded(replies[t][1])

\* The records that lookup returned
LookupResult(t) == replies[t][1].body.result

\* The write of task t has been answered
WriteAnswered(t) == Len(replies[t]) = 2

\* The record identifier a PUT is addressed to: the last segment of its URL
AddressedId(q) == q.url[Len(q.url)]

ReturnedOk(t) == pc[t] = "done" /\ result[t] # None /\ result[t][1].ok

\* The DnsUpdateResult task t returned
Returned(t) == result[t][1].value

---------------------------------------------------------------------------
(* Properties of one reconcile call *)

\* C1: a reconcile call issues at most one write, and never both a create
\* and an update, whatever the zone holds and however its calls end.
C1_AtMostOneWrite ==
    \A t \in Tasks :
        /\ Len(Writes(t)) <= 1
        /\ ~(Creates(t) # <<>> /\ Updates(t) # <<>>)

\* A call whose single write failed has returned without a second write.
C1_Witness ==
    \E t \in Tasks :
        /\ pc[t] = "done" /\ Len(Updates(t)) = 1
        /\ WriteAnswered(t) /\ ~Succeeded(replies[t][2])

\* C2: when the lookup returns a record whose content is the target
\* address, the call writes nothing and returns success, "Record already up
\* to date with IP <ip>", with the identifier of that record.
C2_UpToDate ==
    \A t \in Tasks :
        (LookedUp(t) /\ LookupResult(t) # <<>> /\ LookupResult(t)[1].content = Ip(t))
        => /\ Writes(t) = <<>>
           /\ Len(sent[t]) = 1
           /\ ReturnedOk(t)
           /\ Returned(t).success
           /\ Returned(t).message = <<"Record already up to date with IP ", Ip(t)>>
           /\ Returned(t).record_id = Some(LookupResult(t)[1].id)
           /\ response[t] = Some([status |-> 200,
                                  body |-> [success |-> TRUE,
                                            message |-> Returned(t).message,
                                            record_id |-> Some(LookupResult(t)[1].id)]])

C2_Witness ==
    \E t \in Tasks :
        /\ LookedUp(t) /\ LookupResult(t) # <<>>
        /\ LookupResult(t)[1].content = Ip(t)
        /\ pc[t] = "done"

\* C5: when the lookup succeeds with an empty result, the call issues
\* exactly one create and no update, and when the create succeeds it
\* returns success, "Created new record <host> with IP <ip>", with the
\* identifier of the record in the create response.
C5_Create ==
    \A t \in Tasks :
        (LookedUp(t) /\ LookupResult(t) = <<>>)
        => /\ Len(Creates(t)) = 1
           /\ Updates(t) = <<>>
           /\ (WriteAnswered(t) /\ Succeeded(replies[t][2])
               /\ replies[t][2].body.result # None)
              => /\ ReturnedOk(t)
                 /\ Returned(t).success
                 /\ Returned(t).message =
                        <<"Created new record ", Host(t), " with IP ", Ip(t)>>
                 /\ Returned(t).record_id = Some(replies[t][2].body.result[1].id)

C5_Witness ==
    \E t \in Tasks :
        /\ LookedUp(t) /\ LookupResult(t) = <<>>
        /\ WriteAnswered(t) /\ Succeeded(replies[t][2])
        /\ replies[t][2].body.result # None

\* C6: when the lookup returns a record whose content differs from the
\* target address, the call issues exactly one update, addressed to the
\* identifier of that record, and no create.
C6_Update ==
    \A t \in Tasks :
        (LookedUp(t) /\ LookupResult(t) # <<>> /\ LookupResult(t)[1].content # Ip(t))
        => /\ Len(Updates(t)) = 1
           /\ AddressedId(Updates(t)[1]) = LookupResult(t)[1].id
           /\ Creates(t) = <<>>

C6_Witness ==
    \E t \in Tasks :
        /\ LookedUp(t) /\ LookupResult(t) # <<>>
        /\ LookupResult(t)[1].content # Ip(t)
        /\ pc[t] = "done"

\* C7 as claimed: on the update branch the identifier returned is the one
\* the lookup found, whatever record the update response carries.
C7_Original ==
    \A t \in Tasks :
        (ReturnedOk(t) /\ Updates(t) # <<>>)
        => Returned(t).record_id = Some(LookupResult(t)[1].id)

\* C7, amended: on the update branch the identifier returned is the one of
\* the record in the update response; it is the identifier the lookup found
\* whenever the response carries the identifier the update was addressed to.
C7_UpdatedId ==
    \A t \in Tasks :
        (ReturnedOk(t) /\ Updates(t) # <<>>)
        => /\ WriteAnswered(t) /\ Succeeded(replies[t][2])
           /\ Returned(t).message = <<"Updated record ", Host(t), " to IP ", Ip(t)>>
           /\ Returned(t).record_id = Some(replies[t][2].body.result[1].id)
           /\ (replies[t][2].body.result[1].id = AddressedId(Updates(t)[1])
               => Returned(t).record_id = Some(LookupResult(t)[1].id))

\* An update answered with a record under another identifier.
C7_Witness ==
    \E t \in Tasks :
        /\ ReturnedOk(t) /\ Updates(t) # <<>>
        /\ replies[t][2].body.result[1].id # AddressedId(Updates(t)[1])

\* The text of one error entry, written out: "<code>: <message>"
PairText(e) ==
    IF e.code = 9109 THEN <<"9109", ": ", "Invalid access token">>
    ELSE <<"-7", ": ", "quota">>

\* C8: when the lookup response reports success:false, the call fails with
\* the provider API error, whose message holds every "code: message" pair of
\* the response, and it issues no create and no update.
C8_LookupRejected ==
    \A t \in Tasks :
        (replies[t] # <<>> /\ replies[t][1].transport = "ok"
         /\ ~replies[t][1].body.success)
        => /\ pc[t] = "done"
           /\ result[t] # None /\ ~result[t][1].ok
           /\ Head(result[t][1].error) = "Cloudflare API error: "
           /\ \A i \in 1..Len(replies[t][1].body.errors) :
                  Contains(result[t][1].error, PairText(replies[t][1].body.errors[i]))
           /\ response[t] # None /\ response[t][1].status = 500
           /\ \A i \in 1..Len(replies[t][1].body.errors) :
                  Contains(response[t][1].body.error,
                           PairText(replies[t][1].body.errors[i]))
           /\ Writes(t) = <<>>
           /\ Len(sent[t]) = 1

\* A lookup rejected with two different errors.
C8_Witness ==
    \E t \in Tasks :
        /\ replies[t] # <<>> /\ replies[t][1].transport = "ok"
        /\ ~replies[t][1].body.success
        /\ Len(replies[t][1].body.errors) = 2
        /\ replies[t][1].body.errors[1] # replies[t][1].body.errors[2]

---------------------------------------------------------------------------
(* Properties of the request handler *)

\* The provider configuration the request of task t selects
Selected(t) == get_provider(Providers, req[t][1].provider)

\* C9: a request that selects a configuration whose provider_type names no
\* engine makes no remote call; once its address and key are accepted it is
\* answered with the unsupported-provider error.
C9_Unsupported ==
    \A t \in Tasks :
        (req[t] # None /\ Selected(t) # None
         /\ Selected(t)[1].provider_type # "cloudflare")
        => /\ sent[t] = <<>> /\ replies[t] = <<>> /\ result[t] = None
           /\ pc[t] = "done"
           /\ (is_valid_ipv4(req[t][1].ip)
               /\ (Selected(t)[1].key = None \/ req[t][1].key = Selected(t)[1].key))
              => response[t] =
                    Some([status |-> 400,
                          body |-> [success |-> FALSE,
                                    error |-> <<"Unsupported provider type: ",
                                                Selected(t)[1].provider_type>>]])

C9_Witness ==
    \E t \in Tasks :
        /\ req[t] # None /\ Selected(t) # None
        /\ Selected(t)[1].provider_type # "cloudflare"
        /\ response[t] # None
        /\ Head(response[t][1].body.error) = "Unsupported provider type: "

\* C10 as claimed: when the selected configuration carries a key, the engine
\* is invoked only for a request that supplies exactly that key; any other
\* request, one without a key included, is answered 401 "Invalid key" and
\* makes no remote call.
C10_KeyRequired ==
    \A t \in Tasks :
        (req[t] # None /\ is_valid_ipv4(req[t][1].ip)
         /\ Selected(t) # None /\ Selected(t)[1].key # None)
        => IF req[t][1].key = Selected(t)[1].key
           THEN response[t] = None \/ response[t][1].status # 401
           ELSE /\ sent[t] = <<>>
                /\ response[t] = Some([status |-> 401,
                                       body |-> [success |-> FALSE,
                                                 error |-> <<"Invalid key">>]])

---------------------------------------------------------------------------
(* Properties of calls on a working zone *)

\* Every reply task t received carried success:true
AllSucceeded(t) == \A i \in 1..Len(replies[t]) : Succeeded(replies[t][i])

\* Task b ran the request of task a again, after a had returned, and no
\* other request was served from the start of a to the return of b
InSuccession(a, b) ==
    /\ a # b /\ pc[a] = "done" /\ pc[b] = "done" /\ a \in before[b]
    /\ req[a][1].provider = req[b][1].provider
    /\ req[a][1].host = req[b][1].host
    /\ req[a][1].ip = req[b][1].ip
    /\ \A c \in Tasks \ {a, b} : pc[c] = "idle" \/ c \in before[a]

\* The lookup of task t found a first record that holds the target address
FoundUpToDate(t) == LookupResult(t) # <<>> /\ LookupResult(t)[1].content = Ip(t)

\* C3 as claimed: of two calls in succession with the same arguments, all
\* remote calls succeeding, the first writes exactly once and the second
\* never, and both return success with the same identifier.
C3_Original ==
    \A a, b \in Tasks :
        (InSuccession(a, b) /\ AllSucceeded(a) /\ AllSucceeded(b))
        => /\ Len(Writes(a)) = 1 /\ Writes(b) = <<>>
           /\ ReturnedOk(a) /\ ReturnedOk(b)
           /\ Returned(a).record_id = Returned(b).record_id

\* C3, amended: of two calls in succession with the same arguments, all
\* remote calls succeeding, the first writes exactly once unless its lookup
\* finds the address already in place, and then not at all; the second never
\* writes; both return success with the same identifier.
C3_Idempotent ==
    \A a, b \in Tasks :
        (InSuccession(a, b) /\ AllSucceeded(a) /\ AllSucceeded(b))
        => /\ Len(Writes(a)) = (IF FoundUpToDate(a) THEN 0 ELSE 1)
           /\ Writes(b) = <<>>
           /\ ReturnedOk(a) /\ ReturnedOk(b)
           /\ Returned(a).record_id # None
           /\ Returned(a).record_id = Returned(b).record_id

\* Two calls in succession, the first of which wrote.
C3_Witness ==
    \E a, b \in Tasks :
        /\ InSuccession(a, b) /\ AllSucceeded(a) /\ AllSucceeded(b)
        /\ Len(Writes(a)) = 1

\* No other request for the host of task t was served while t ran or since
Undisturbed(t) ==
    \A u \in Tasks \ {t} :
        (req[u] # None /\ Host(u) = Host(t)) => u \in before[t]

\* C4: once a call has returned success, no other call for its hostname
\* having run meanwhile, a lookup for the hostname finds a record whose
\* content is the call's target address.
C4_Reconciled ==
    \A t \in Tasks :
        (ReturnedOk(t) /\ Undisturbed(t))
        => /\ ZoneList(remote, sent[t][1]) # <<>>
           /\ ZoneList(remote, sent[t][1])[1].content = Ip(t)
           /\ ZoneList(remote, sent[t][1])[1].name = Host(t)

\* A call that wrote and returned while a call for another host was served.
C4_Witness ==
    \E t, u \in Tasks :
        /\ ReturnedOk(t) /\ Undisturbed(t) /\ Len(Writes(t)) = 1
        /\ req[u] # None /\ Host(u) # Host(t) /\ u \notin before[t]
        /\ Len(Writes(u)) = 1

---------------------------------------------------------------------------
(* Properties of the order and the failure of the remote calls *)

\* The i-th remote call of task t was answered and failed: the client could
\* not send or parse, or the provider reported success: false
Failed(t, i) == i <= Len(replies[t]) /\ ~Succeeded(replies[t][i])

\* C11: a remote call that fails, at the transport level or because the
\* provider reports a failure, ends the reconcile call: the call has
\* returned an error, the failed request was its last (it is not retried
\* and no other remote call follows), and the handler answers 500.
C11_FailureIsFatal ==
    \A t \in Tasks : \A i \in 1..Len(sent[t]) :
        Failed(t, i)
        => /\ pc[t] = "done"
           /\ result[t] # None /\ ~result[t][1].ok
           /\ Len(sent[t]) = i /\ Len(replies[t]) = i
           /\ response[t] # None /\ response[t][1].status = 500
           /\ ~response[t][1].body.success

\* An update the provider refused, after a lookup that found a record.
C11_Witness ==
    \E t \in Tasks :
        /\ Failed(t, 2) /\ sent[t][2].method = "PUT"
        /\ replies[t][2].transport = "ok"

\* The methods of the remote calls of task t, in the order issued
Methods(t) == [i \in 1..Len(sent[t]) |-> sent[t][i].method]

\* C12: the remote calls of one reconcile call are a lookup, then at most
\* one write, issued only once the lookup has been answered successfully:
\* [lookup], [lookup, create] or [lookup, update] (a rejected request makes
\* no remote call at all).
C12_LookupFirst ==
    \A t \in Tasks :
        /\ Methods(t) \in {<<>>, <<"GET">>, <<"GET", "POST">>, <<"GET", "PUT">>}
        /\ Len(sent[t]) <= Len(replies[t]) + 1
        /\ Len(sent[t]) = 2 => LookedUp(t)
        /\ (pc[t] # "idle" /\ response[t] = None) => Len(sent[t]) = Len(replies[t]) + 1

\* A create in flight after a lookup that came back empty.
C12_Witness ==
    \E t \in Tasks :
        /\ pc[t] = "create_record" /\ Methods(t) = <<"GET", "POST">>
        /\ LookedUp(t) /\ LookupResult(t) = <<>> /\ Len(replies[t]) = 1

---------------------------------------------------------------------------
(* Properties of concurrent calls *)

Suspended(t) == pc[t] \in {"get_record", "create_record", "update_existing_record"}

\* Whatever the other tasks are doing, a request can be taken by an idle
\* task and the reply to the call in flight can be taken by a suspended one
NotBlocked ==
    \A t \in Tasks :
        /\ pc[t] = "idle" => \A r \in ConcRequests : ENABLED update_dns(t, r)
        /\ Suspended(t) => ENABLED Answer(t, ConcFaults)

\* C13: concurrent reconcile calls do not block one another: in every
\* reachable state each task can take its next step whatever the state of
\* the others, and, every remote call being answered in the end, every
\* call that started returns a result or an error.
C13_NoBlocking ==
    /\ []NotBlocked
    /\ \A t \in Tasks : Suspended(t) ~> (pc[t] = "done" /\ result[t] # None)

\* Two calls for one hostname that overlapped and both returned.
C13_Witness ==
    \E a, b \in Tasks :
        /\ a # b /\ pc[a] = "done" /\ pc[b] = "done"
        /\ Host(a) = Host(b) /\ a \notin before[b] /\ b \notin before[a]
        /\ Len(replies[a]) = 2 /\ Len(replies[b]) = 2

---------------------------------------------------------------------------
(* Properties of the requests sent and of the errors reported *)

\* The pieces of the joined error list, position by position: entry i fills
\* the pieces 4i-3 (code), 4i-2 (": ") and 4i-1 (message), and ", " stands
\* between two entries
JoinedText(errors) ==
    [k \in 1..(4 * Len(errors) - 1) |->
        IF k % 4 = 0 THEN ", " ELSE PairText(errors[(k + 3) \div 4])[k % 4]]

\* The i-th remote call of task t was answered with success: false
Refused(t, i) ==
    /\ i <= Len(replies[t])
    /\ replies[t][i].transport = "ok" /\ ~replies[t][i].body.success

\* C14: whichever of the three remote calls the provider answers with
\* success: false, the call fails with "Cloudflare API error: " followed by
\* every entry of the response's error list as "code: message", in the
\* response's order, joined with ", " (nothing for an empty list), and the
\* handler reports that text after "DNS update failed: ".
C14_ErrorText ==
    \A t \in Tasks : \A i \in 1..Len(sent[t]) :
        Refused(t, i)
        => /\ result[t] = Some(Err(<<"Cloudflare API error: ">>
                                   \o JoinedText(replies[t][i].body.errors)))
           /\ response[t] # None
           /\ response[t][1].body.error
                = <<"DNS update failed: ", "Cloudflare API error: ">>
                  \o JoinedText(replies[t][i].body.errors)

\* A create refused with two different errors, the negative code first.
C14_Witness ==
    \E t \in Tasks :
        /\ Refused(t, 2) /\ sent[t][2].method = "POST"
        /\ Len(replies[t][2].body.errors) = 2
        /\ replies[t][2].body.errors[1].code = -7
        /\ replies[t][2].body.errors[2].code = 9109

\* C15: every write a reconcile call issues, create or update, carries the
\* body type "A", name the hostname of the call, content the target address
\* of the call, ttl 1 and proxied false, and a lookup carries no body.
C15_WriteBody ==
    \A t \in Tasks : \A i \in 1..Len(sent[t]) :
        IF sent[t][i].method \in {"POST", "PUT"}
        THEN /\ sent[t][i].body # None
             /\ sent[t][i].body[1].type = "A"
             /\ sent[t][i].body[1].name = req[t][1].host
             /\ sent[t][i].body[1].content = Str(req[t][1].ip)
             /\ sent[t][i].body[1].ttl = 1
             /\ sent[t][i].body[1].proxied = FALSE
             /\ DOMAIN sent[t][i].body[1] = {"type", "name", "content", "ttl", "proxied"}
        ELSE sent[t][i].body = None

\* An update sent for a record that held another address.
C15_Witness ==
    \E t \in Tasks :
        /\ Len(sent[t]) = 2 /\ sent[t][2].method = "PUT"
        /\ existing[t] # None /\ existing[t][1].content # Str(req[t][1].ip)
        /\ existing[t][1].name = req[t][1].host

\* The lookup of task t was answered successfully with no record
FoundNothing(t) == LookedUp(t) /\ LookupResult(t) = <<>>

\* The records of the zone that carry the hostname of task t
RecordsOfHost(t) == SelectSeq(remote, LAMBDA rec : rec.name = Host(t))

\* C16: calls are not serialized per hostname.  Two calls for one hostname
\* whose lookups both found nothing both issue a create; when both have
\* returned success, each reports "Created new record ..." with the
\* identifier of its own record, and the zone holds two records of that
\* name.  (That such a pair of calls exists is the witness.)
C16_BothCreate ==
    \A a, b \in Tasks :
        (a # b /\ req[a] # None /\ req[b] # None /\ Host(a) = Host(b)
         /\ FoundNothing(a) /\ FoundNothing(b))
        => /\ Methods(a) = <<"GET", "POST">> /\ Methods(b) = <<"GET", "POST">>
           /\ (ReturnedOk(a) /\ ReturnedOk(b))
              => /\ Returned(a).success /\ Returned(b).success
                 /\ Returned(a).message
                      = <<"Created new record ", Host(a), " with IP ", Ip(a)>>
                 /\ Returned(a).record_id = Some(replies[a][2].body.result[1].id)
                 /\ Returned(a).record_id # Returned(b).record_id
                 /\ Len(RecordsOfHost(a)) >= 2
                 /\ \E i \in 1..Len(remote) :
                        Returned(a).record_id = Some(remote[i].id)

\* Two calls for a hostname without a record, with different addresses:
\* both lookups found nothing, both created, both report success.
C16_Witness ==
    \E a, b \in Tasks :
        /\ a # b /\ ReturnedOk(a) /\ ReturnedOk(b)
        /\ Host(a) = Host(b) /\ Ip(a) # Ip(b)
        /\ FoundNothing(a) /\ FoundNothing(b)
        /\ Len(Creates(a)) = 1 /\ Len(Creates(b)) = 1
        /\ response[a][1].status = 200 /\ response[b][1].status = 200
        /\ Len(RecordsOfHost(a)) = 2

---------------------------------------------------------------------------
(* Properties of the order of the handler's checks *)

\* The four checks on the requests of `Requests`, written out from the
\* inputs and the configuration: which addresses are malformed, which name
\* is not configured, which key each provider wants (the key of a request
\* without one counts as ""), which provider is not a Cloudflare one
BadAddress(r) == r.ip \in InvalidIps
UnknownProvider(r) == r.provider = "nope"
BadKey(r) ==
    \/ r.provider \in {"cf", "r53"} /\ r.key # Some("s3cret")
    \/ r.provider = "blank" /\ r.key \notin {None, Some("")}
OtherEngine(r) == r.provider = "r53"

\* The answer the first failing check gives, None if all four pass
FirstFailure(r) ==
    IF BadAddress(r)
    THEN Some([status |-> 400,
               body |-> [success |-> FALSE,
                         error |-> <<"Invalid IP address: ", Str(r.ip)>>]])
    ELSE IF UnknownProvider(r)
    THEN Some([status |-> 404,
               body |-> [success |-> FALSE,
                         error |-> <<"Provider not found: ", r.provider>>]])
    ELSE IF BadKey(r)
    THEN Some([status |-> 401,
               body |-> [success |-> FALSE, error |-> <<"Invalid key">>]])
    ELSE IF OtherEngine(r)
    THEN Some([status |-> 400,
               body |-> [success |-> FALSE,
                         error |-> <<"Unsupported provider type: ", "route53">>]])
    ELSE None

\* C17: the handler checks the address, the provider name, the key and the
\* provider type in this order, and the first check that fails alone gives
\* the response; the engine runs, and a remote call is made, only for a
\* request that passes all four, so every request the engine sends is for
\* a well-formed IPv4 address.
C17_CheckOrder ==
    \A t \in Tasks :
        req[t] # None
        => IF FirstFailure(req[t][1]) # None
           THEN /\ response[t] = FirstFailure(req[t][1])
                /\ pc[t] = "done" /\ sent[t] = <<>> /\ result[t] = None
           ELSE /\ sent[t] # <<>>
                /\ req[t][1].ip \in ValidIps \cup BoundaryIps
                /\ response[t] # None => response[t][1].status \in {200, 500}

\* A request with a wrong key for a provider of another type: the key
\* check, which comes first, answers.
C17_Witness ==
    \E t \in Tasks :
        /\ req[t] # None /\ ~BadAddress(req[t][1])
        /\ BadKey(req[t][1]) /\ OtherEngine(req[t][1])
        /\ response[t] # None /\ response[t][1].status = 401

---------------------------------------------------------------------------
(* Properties of the results of the engine *)

\* The record of the zone with identifier `id`, as a set (empty if none)
RecordsWithId(id) == { remote[i] : i \in {j \in 1..Len(remote) : remote[j].id = id} }

\* C18: when a successful lookup returns several records, only the first
\* counts: its content is the one compared with the target address, an
\* update goes to its identifier, and the other records returned are
\* neither addressed by a request nor changed in the zone.
C18_FirstRecordOnly ==
    \A t \in Tasks :
        (LookedUp(t) /\ Len(LookupResult(t)) >= 2)
        => /\ existing[t] = Some(LookupResult(t)[1])
           /\ IF LookupResult(t)[1].content = Ip(t)
              THEN /\ Methods(t) = <<"GET">>
                   /\ ReturnedOk(t)
                   /\ Returned(t).record_id = Some(LookupResult(t)[1].id)
              ELSE /\ Methods(t) = <<"GET", "PUT">>
                   /\ AddressedId(sent[t][2]) = LookupResult(t)[1].id
           /\ \A j \in 2..Len(LookupResult(t)) :
                  /\ \A i \in 1..Len(sent[t]) :
                         AddressedId(sent[t][i]) # LookupResult(t)[j].id
                  /\ RecordsWithId(LookupResult(t)[j].id) = {LookupResult(t)[j]}

\* Two records of the hostname, the second already holding the target
\* address: the first was updated all the same, the second left alone.
C18_Witness ==
    \E t \in Tasks :
        /\ LookedUp(t) /\ Len(LookupResult(t)) = 2
        /\ LookupResult(t)[1].content # Ip(t)
        /\ LookupResult(t)[2].content = Ip(t)
        /\ ReturnedOk(t) /\ Len(Updates(t)) = 1
        /\ RecordsWithId(LookupResult(t)[1].id) # {LookupResult(t)[1]}

\* The text of a result's message says which of the three outcomes it is
Outcome(r) == Head(r.message)

\* C19: every Ok result of update_record has success = true and a present
\* record_id, and a create or update answered success: true without a
\* result record makes the call fail with "No result in Cloudflare
\* response"; it never returns Ok without an identifier.
C19_OkHasRecordId ==
    \A t \in Tasks :
        /\ ReturnedOk(t)
           => /\ Returned(t).success = TRUE
              /\ Returned(t).record_id # None
              /\ Outcome(Returned(t)) \in {"Record already up to date with IP ",
                                           "Updated record ", "Created new record "}
              /\ response[t] = Some([status |-> 200,
                                     body |-> [success |-> TRUE,
                                               message |-> Returned(t).message,
                                               record_id |-> Returned(t).record_id]])
        /\ (WriteAnswered(t) /\ Succeeded(replies[t][2])
            /\ replies[t][2].body.result = None)
           => /\ pc[t] = "done"
              /\ result[t] = Some(Err(<<"No result in Cloudflare response">>))
              /\ response[t][1].status = 500

\* A create answered success: true without a record.
C19_Witness ==
    \E t \in Tasks :
        /\ WriteAnswered(t) /\ Succeeded(replies[t][2])
        /\ replies[t][2].body.result = None
        /\ sent[t][2].method = "POST" /\ pc[t] = "done"

====
